---- MODULE Spec2Model ----
(***************************************************************************)
(* Model of the stream multiplexer of src/src/client/http-client.ts:       *)
(* DefaultStreamClient (the registry of streams over one socket) and       *)
(* DefaultStream (one subscription).  An async method runs synchronously   *)
(* up to its first await; each await is a suspension point, and the code   *)
(* between two awaits is one atomic step.  The Socket is an external       *)
(* collaborator whose code is not part of the sources: it is modelled from *)
(* its contract (connect, send, disconnect, isConnected, reconnection).    *)
(***************************************************************************)
EXTENDS Integers, Sequences, FiniteSets, Bags, TLC

\* ------------------------------------------------------------------ bounds
NumIds == 3
MaxBlock == 1
MaxStart == 0
MaxObjs == 2
MaxInFlight == 2
MaxCalls == 4

\* The ids calls and inbound messages are drawn from: the empty string (the key
\* of a message without req_id), an integer-like name, a name every object
\* inherits from Object.prototype, then plain names.
IdNames == <<"", "1", "constructor", "a", "10">>
Ids == {IdNames[i] : i \in 1..NumIds}
Blocks == 0..MaxBlock
StartBlocks == 0..MaxStart

\* ------------------------------------------------------------- JS values
\* `undefined` for a number-valued slot (start_block, a marker).
Undefined == -1
\* `undefined` for message.req_id of an inbound message.
NoReqId == "undefined"
RegTypes == {"get_action_traces"}

VARIABLES
    streams,      \* DefaultStreamClient.streams: id -> stream object (index in objs)
    objs,         \* every DefaultStream constructed so far, in construction order
    tasks,        \* bag of suspended async calls (each at an await)
    socket,       \* the Socket: [isConnected, opening, listener]
    autoRestart,  \* DefaultStreamClient.autoRestartStreamsOnReconnect
    ev,           \* the call or event of the last step and its outcome
    io,           \* socket methods invoked during the last step, in order
    cbs,          \* caller callbacks invoked during the last step, in order
    handles,      \* the streams registerStream has returned to the caller
    marks,        \* per stream object, the argument of its latest mark call (history)
    calls,        \* number of calls the caller has made so far
    hist          \* history of register/unregister calls (sequential-use record)

vars == <<streams, objs, tasks, socket, autoRestart, ev, io, cbs, handles, marks, calls, hist>>

\* ---------------------------------------------------------------- messages
OutboundMessage(type, id, start) == [type |-> type, req_id |-> id, start_block |-> start]
unlistenMessage(id) == OutboundMessage("unlisten", id, Undefined)
NoMsg == OutboundMessage("none", NoReqId, Undefined)
InboundMessage(id, n) == [type |-> "data", req_id |-> id, data |-> n]

Call(name, msg) == [call |-> name, msg |-> msg]
Ev(act, id, obj, marker, res) == [act |-> act, id |-> id, obj |-> obj, marker |-> marker, res |-> res]
Cb(kind, obj, msg) == [kind |-> kind, obj |-> obj, msg |-> msg]
NoInbound == InboundMessage(NoReqId, 0)

\* ----------------------------------------------------------------- registry
\* `streams` is a plain object (line 306): DOMAIN reg is the set of its own
\* properties, and reading a name it does not own falls through to
\* Object.prototype.
ObjectPrototype ==
    {"constructor", "hasOwnProperty", "isPrototypeOf", "propertyIsEnumerable",
     "toLocaleString", "toString", "valueOf", "__proto__", "__defineGetter__",
     "__defineSetter__", "__lookupGetter__", "__lookupSetter__"}
\* What reading an inherited name gives: a value that is not undefined and is
\* not a stream (a function of Object.prototype, or Object.prototype itself).
Inherited == -2
\* this.streams[id]: the stream held under id, Inherited for a name of
\* Object.prototype, 0 for undefined.
Lookup(reg, id) ==
    IF id \in DOMAIN reg THEN reg[id]
    ELSE IF id \in ObjectPrototype THEN Inherited ELSE 0
\* this.streams[streamId] !== undefined (line 348).
StreamExists(reg, id) == Lookup(reg, id) # 0
Delete(reg, id) == [k \in DOMAIN reg \ {id} |-> reg[k]]
Put(reg, id, o) == [k \in DOMAIN reg \cup {id} |-> IF k = id THEN o ELSE reg[k]]
Count(reg) == Cardinality(DOMAIN reg)
EmptyRegistry == [k \in {} |-> 0]

\* The names that are array indices (canonical numeric strings), by value.
ArrayIndexNames == <<"0", "1", "2", "3", "4", "5", "6", "7", "8", "9", "10">>
\* The value of an array-index name, -1 for any other name.
ArrayIndex(id) ==
    IF \E i \in 1..Len(ArrayIndexNames) : ArrayIndexNames[i] = id
    THEN (CHOOSE i \in 1..Len(ArrayIndexNames) : ArrayIndexNames[i] = id) - 1
    ELSE 0 - 1
\* x comes before y in Object.keys: array indices first, in ascending numeric
\* order, then the other names in insertion order, which is construction
\* order of the stream objects held (every insertion stores a newly
\* constructed stream).
KeyBefore(reg, x, y) ==
    IF ArrayIndex(x) >= 0 /\ ArrayIndex(y) >= 0 THEN ArrayIndex(x) <= ArrayIndex(y)
    ELSE IF ArrayIndex(x) >= 0 \/ ArrayIndex(y) >= 0 THEN ArrayIndex(x) >= 0
    ELSE reg[x] <= reg[y]
\* Object.keys(streams): the own properties, in property order.
RECURSIVE Keys(_)
Keys(reg) ==
    IF DOMAIN reg = {} THEN <<>>
    ELSE LET k == CHOOSE x \in DOMAIN reg : \A y \in DOMAIN reg : KeyBefore(reg, x, y)
         IN  <<k>> \o Keys(Delete(reg, k))

\* handleMessage's lookup key: message.req_id || ""
RouteKey(m) == IF m.req_id = NoReqId \/ m.req_id = "" THEN "" ELSE m.req_id

\* ------------------------------------------------------------------ stream
NewStream(id, msg, handler) ==
    [id |-> id, registrationMessage |-> msg, onMessageHandler |-> handler,
     activeMarker |-> Undefined, onPostRestart |-> FALSE]

\* A mark that keeps the first marker it was given.
SetMarker_KeepFirst(s, b) == IF s.activeMarker = Undefined THEN [s EXCEPT !.activeMarker = b] ELSE s
\* currentActiveMarker() (lines 454-456).
currentActiveMarker(s) == s.activeMarker
\* mark(options): this.activeMarker = options (line 486).
SetMarker(s, b) == [s EXCEPT !.activeMarker = b]

\* A restart that prefers the stored marker to its argument.
RestartMessage_StoredFirst(s, marker) ==
    IF s.activeMarker # Undefined THEN [s.registrationMessage EXCEPT !.start_block = s.activeMarker]
    ELSE IF marker # Undefined
         THEN [s.registrationMessage EXCEPT !.start_block = marker]
         ELSE s.registrationMessage
\* restart(): { ...registrationMessage } with start_block overridden by the
\* argument, else by the stored marker, else left as it is.
RestartMessage(s, marker) ==
    IF marker # Undefined THEN [s.registrationMessage EXCEPT !.start_block = marker]
    ELSE IF s.activeMarker # Undefined
         THEN [s.registrationMessage EXCEPT !.start_block = s.activeMarker]
         ELSE s.registrationMessage

\* A restart that writes the start position into the stored message itself.
Template_Aliased(s, marker) == RestartMessage(s, marker)
\* The registration message the stream holds once restart has built its
\* message: `{ ...this.registrationMessage }` (line 471) is a copy, and the
\* assignments of lines 473 and 475 go to the copy.
Template(s, marker) == s.registrationMessage

\* ------------------------------------------------------------------ socket
SocketInit == [isConnected |-> FALSE, opening |-> FALSE, listener |-> FALSE]
SocketConnect(s) == [s EXCEPT !.opening = s.opening \/ ~s.isConnected]
SocketDisconnect(s) == [s EXCEPT !.isConnected = FALSE, !.listener = FALSE]
SocketOpened(s) == [s EXCEPT !.isConnected = TRUE, !.opening = FALSE, !.listener = TRUE]

\* ------------------------------------------------------------------- tasks
Task(op, pc, msg, obj, ready) == [op |-> op, pc |-> pc, msg |-> msg, obj |-> obj, ready |-> ready]
\* a call that keeps no message across its await remembers the id alone
IdOnly(id) == [type |-> "none", req_id |-> id, start_block |-> Undefined]
Spawn(b, t) == b (+) SetToBag({t})
Finish(b, t) == b (-) SetToBag({t})
InFlight == BagCardinality(tasks)
Idle == InFlight = 0
Connecting == {t \in BagToSet(tasks) : t.pc = "connect"}
\* stream objects constructed, plus those the calls awaiting connect will construct
Reserved == Len(objs) + BagCardinality([t \in Connecting |-> tasks[t]])

\* ----------------------------------------------------------------- history
HistInit == [seq |-> TRUE, regIds |-> {}, unregIds |-> {}, okIds |-> {}, failed |-> FALSE, overlap |-> FALSE]
Broken == [seq |-> FALSE, regIds |-> {}, unregIds |-> {}, okIds |-> {}, failed |-> FALSE, overlap |-> FALSE]
\* A registerStream is called while the unregisterStream of the last active
\* stream is in flight, nothing but registrations and unregistrations run one
\* at a time, none of which failed, having come before.
Overlapping ==
    /\ hist.seq /\ ~hist.failed
    /\ Count(streams) = 0
    /\ InFlight = 1
    /\ \A t \in BagToSet(tasks) : t.op = "unregisterStream"
Overlap == [Broken EXCEPT !.overlap = TRUE]
HistRegister(id) ==
    IF hist.seq /\ Idle /\ id \notin hist.regIds
    THEN [hist EXCEPT !.regIds = @ \cup {id}]
    ELSE IF Overlapping THEN Overlap ELSE Broken
HistUnregister(id) ==
    IF hist.seq /\ Idle /\ id \in hist.okIds \ hist.unregIds
    THEN [hist EXCEPT !.unregIds = @ \cup {id}] ELSE Broken
HistOk(h, id) == IF h.seq THEN [h EXCEPT !.okIds = @ \cup {id}] ELSE h
HistFail(h) == IF h.seq THEN [h EXCEPT !.failed = TRUE] ELSE Broken

\* ---------------------------------------------------------- registerStream
\* A registerStream without the duplicate check.
IsDuplicate_Never(reg, id) == FALSE
\* The duplicate check of registerStream (line 341).
IsDuplicate(reg, id) == StreamExists(reg, id)
\* A registerStream that sends without having stored the stream.
Insert_Skip(reg, id, o) == reg
\* this.streams[id] = stream (line 361).
Insert(reg, id, o) == Put(reg, id, o)

\* Lines 340-371 up to the await of stream.start(): the duplicate check, the
\* construction of the stream, its insertion, and the call of socket.send.
\* `rest` is the bag of the other suspended calls, `pre` the socket calls this
\* step has already made.
RegisterBody(act, msg, pre, rest, h) ==
    LET id == msg.req_id
        o  == Len(objs) + 1
    IN  IF IsDuplicate(streams, id)
        THEN /\ streams' = streams
             /\ objs' = objs
             /\ marks' = marks
             /\ handles' = handles
             /\ tasks' = rest
             /\ io' = pre
             /\ ev' = Ev(act, id, 0, Undefined, "DuplicateStreamError")
             /\ hist' = HistFail(h)
        ELSE /\ objs' = Append(objs, NewStream(id, msg, o))
             /\ marks' = Append(marks, Undefined)
             /\ handles' = handles
             /\ streams' = Insert(streams, id, o)
             /\ tasks' = Spawn(rest, Task("registerStream", "start", msg, o, TRUE))
             /\ io' = Append(pre, Call("send", msg))
             /\ ev' = Ev(act, id, o, Undefined, "pending")
             /\ hist' = h

\* registerStream(message, onMessage), from the call to its first await.
RegisterStream(type, id, start) ==
    LET msg == OutboundMessage(type, id, start)
    IN  /\ (Count(streams) = 0 \/ ~IsDuplicate(streams, id)) => InFlight < MaxInFlight
        /\ ~IsDuplicate(streams, id) => Reserved < MaxObjs
        /\ IF Count(streams) = 0
           THEN /\ socket' = SocketConnect(socket)
                /\ tasks' = Spawn(tasks, Task("registerStream", "connect", msg, 0, socket.isConnected))
                /\ io' = <<Call("connect", NoMsg)>>
                /\ ev' = Ev("RegisterStream", id, 0, Undefined, "pending")
                /\ hist' = HistRegister(id)
                /\ UNCHANGED <<streams, objs, marks, handles>>
           ELSE /\ RegisterBody("RegisterStream", msg, <<>>, tasks, HistRegister(id))
                /\ UNCHANGED socket
        /\ calls < MaxCalls
        /\ calls' = calls + 1
        /\ cbs' = <<>>
        /\ UNCHANGED autoRestart

\* registerStream resumes after `await this.socket.connect(...)` (line 337).
RegisterConnected(t) ==
    /\ t.op = "registerStream" /\ t.pc = "connect" /\ t.ready
    /\ RegisterBody("RegisterConnected", t.msg, <<>>, Finish(tasks, t), hist)
    /\ calls' = calls
    /\ cbs' = <<>>
    /\ UNCHANGED <<socket, autoRestart>>

\* registerStream resumes after `await stream.start()` resolved (lines 370-371).
RegisterStarted(t) ==
    /\ t.op = "registerStream" /\ t.pc = "start"
    /\ tasks' = Finish(tasks, t)
    /\ ev' = Ev("RegisterStarted", t.msg.req_id, t.obj, Undefined, "ok")
    /\ io' = <<>>
    /\ calls' = calls
    /\ cbs' = <<>>
    /\ hist' = HistOk(hist, t.msg.req_id)
    /\ handles' = handles \cup {t.obj}
    /\ UNCHANGED <<streams, objs, marks, socket, autoRestart>>

\* A catch block that leaves the record in place.
Rollback_Keep(reg, id) == reg
\* The catch block of registerStream (lines 365-368): the rollback.
Rollback(reg, id) == Delete(reg, id)

\* registerStream resumes after `await stream.start()` rejected.
RegisterStartFailed(t) ==
    /\ t.op = "registerStream" /\ t.pc = "start"
    /\ streams' = Rollback(streams, t.msg.req_id)
    /\ tasks' = Finish(tasks, t)
    /\ ev' = Ev("RegisterStartFailed", t.msg.req_id, t.obj, Undefined, "RegistrationError")
    /\ io' = <<>>
    /\ calls' = calls
    /\ cbs' = <<>>
    /\ hist' = HistFail(hist)
    /\ UNCHANGED <<objs, marks, handles, socket, autoRestart>>

\* -------------------------------------------------------- unregisterStream
\* An unregisterStream that sends the unlisten without removing the record.
Remove_Keep(reg, id) == reg
\* delete this.streams[id] (line 383).
Remove(reg, id) == Delete(reg, id)
\* An unregisterStream that disconnects whatever the registry holds.
NoMoreStream_Always(reg) == TRUE
\* The test that decides the disconnect (line 386).
NoMoreStream(reg) == Count(reg) <= 0

\* The test of the early return of unregisterStream (line 375).
AlreadyUnregistered(reg, id) == Lookup(reg, id) = 0

\* unregisterStream(id) from the call to its first await (lines 374-384);
\* `act` names the caller (unregisterStream itself, or close).
UnregisterBody(act, id, h) ==
    IF AlreadyUnregistered(streams, id)
    THEN /\ ev' = Ev(act, id, 0, Undefined, "ok")
         /\ io' = <<>>
         /\ hist' = h
         /\ UNCHANGED <<streams, tasks>>
    ELSE /\ InFlight < MaxInFlight
         /\ streams' = Remove(streams, id)
         /\ io' = <<Call("send", unlistenMessage(id))>>
         /\ tasks' = Spawn(tasks, Task("unregisterStream", "send", IdOnly(id), Lookup(streams, id), TRUE))
         /\ ev' = Ev(act, id, Lookup(streams, id), Undefined, "pending")
         /\ hist' = h

UnregisterStream(id) ==
    /\ UnregisterBody("UnregisterStream", id, HistUnregister(id))
    /\ calls < MaxCalls
    /\ calls' = calls + 1
    /\ cbs' = <<>>
    /\ UNCHANGED <<objs, marks, handles, socket, autoRestart>>

\* unregisterStream resumes after `await this.socket.send(message)` resolved
\* (lines 386-389): disconnects when no stream is left.
UnregisterSent(t) ==
    /\ t.op = "unregisterStream" /\ t.pc = "send"
    /\ IF NoMoreStream(streams)
       THEN /\ socket' = SocketDisconnect(socket)
            /\ io' = <<Call("disconnect", NoMsg)>>
            /\ tasks' = Spawn(Finish(tasks, t), [t EXCEPT !.pc = "disconnect"])
            /\ ev' = Ev("UnregisterSent", t.msg.req_id, t.obj, Undefined, "pending")
            /\ hist' = hist
       ELSE /\ socket' = socket
            /\ io' = <<>>
            /\ tasks' = Finish(tasks, t)
            /\ ev' = Ev("UnregisterSent", t.msg.req_id, t.obj, Undefined, "ok")
            /\ hist' = hist
    /\ calls' = calls
    /\ cbs' = <<>>
    /\ UNCHANGED <<streams, objs, marks, handles, autoRestart>>

\* unregisterStream resumes after `await this.socket.send(message)` rejected:
\* the error propagates, lines 386-389 are skipped.
UnregisterSendFailed(t) ==
    /\ t.op = "unregisterStream" /\ t.pc = "send"
    /\ tasks' = Finish(tasks, t)
    /\ ev' = Ev("UnregisterSendFailed", t.msg.req_id, t.obj, Undefined, "SocketError")
    /\ io' = <<>>
    /\ calls' = calls
    /\ cbs' = <<>>
    /\ hist' = HistFail(hist)
    /\ UNCHANGED <<streams, objs, marks, handles, socket, autoRestart>>

\* unregisterStream resumes after `await this.socket.disconnect()` (line 388).
UnregisterDisconnected(t, ok) ==
    /\ t.op = "unregisterStream" /\ t.pc = "disconnect"
    /\ tasks' = Finish(tasks, t)
    /\ ev' = Ev("UnregisterDisconnected", t.msg.req_id, t.obj, Undefined, IF ok THEN "ok" ELSE "SocketError")
    /\ io' = <<>>
    /\ calls' = calls
    /\ cbs' = <<>>
    /\ hist' = IF ok THEN hist ELSE HistFail(hist)
    /\ UNCHANGED <<streams, objs, marks, handles, socket, autoRestart>>

\* ------------------------------------------------------------ DefaultStream
\* restart(marker?) from the call to its await of socket.send (lines 462-478).
Restart(o, marker) ==
    /\ IF ~StreamExists(streams, objs[o].id)
       THEN /\ ev' = Ev("Restart", objs[o].id, o, marker, "StreamNotRegisteredError")
            /\ io' = <<>>
            /\ tasks' = tasks
            /\ objs' = objs
       ELSE /\ InFlight < MaxInFlight
            /\ io' = <<Call("send", RestartMessage(objs[o], marker))>>
            /\ tasks' = Spawn(tasks, Task("restart", "send", IdOnly(objs[o].id), o, TRUE))
            /\ ev' = Ev("Restart", objs[o].id, o, marker, "pending")
            /\ objs' = [objs EXCEPT ![o].registrationMessage = Template(objs[o], marker)]
    /\ calls < MaxCalls
    /\ calls' = calls + 1
    /\ cbs' = <<>>
    /\ hist' = Broken
    /\ UNCHANGED <<streams, marks, handles, socket, autoRestart>>

\* restart resumes after `await this.socket.send(restartMessage)` resolved
\* (lines 480-482).
RestartSent(t) ==
    /\ t.op = "restart" /\ t.pc = "send"
    /\ tasks' = Finish(tasks, t)
    /\ calls' = calls
    /\ cbs' = IF objs[t.obj].onPostRestart THEN <<Cb("onPostRestart", t.obj, NoInbound)>> ELSE <<>>
    /\ ev' = Ev("RestartSent", t.msg.req_id, t.obj, Undefined, "ok")
    /\ io' = <<>>
    /\ hist' = Broken
    /\ UNCHANGED <<streams, objs, marks, handles, socket, autoRestart>>

\* A rejection that takes the other pending restarts down with it.
RestartRejected_AbortsAll(b, t) == [u \in {x \in BagToSet(b) : x.op # "restart"} |-> b[u]]
\* The rejection of one restart() ends that call alone: handleReconnection
\* neither awaits nor chains the promises of the restarts it starts (line 418).
RestartRejected(b, t) == Finish(b, t)

\* restart resumes after `await this.socket.send(restartMessage)` rejected.
RestartSendFailed(t) ==
    /\ t.op = "restart" /\ t.pc = "send"
    /\ tasks' = RestartRejected(tasks, t)
    /\ ev' = Ev("RestartSendFailed", t.msg.req_id, t.obj, Undefined, "SocketError")
    /\ io' = <<>>
    /\ calls' = calls
    /\ cbs' = <<>>
    /\ hist' = Broken
    /\ UNCHANGED <<streams, objs, marks, handles, socket, autoRestart>>

\* mark({ atBlockNum }) (lines 485-487).
Mark(o, b) ==
    /\ objs' = [objs EXCEPT ![o] = SetMarker(objs[o], b)]
    /\ marks' = [marks EXCEPT ![o] = b]
    /\ handles' = handles
    /\ ev' = Ev("Mark", objs[o].id, o, b, "ok")
    /\ io' = <<>>
    /\ calls < MaxCalls
    /\ calls' = calls + 1
    /\ cbs' = <<>>
    /\ hist' = Broken
    /\ UNCHANGED <<streams, tasks, socket, autoRestart>>

\* The caller assigns the public field onPostRestart (line 425).
SetOnPostRestart(o) ==
    /\ ~objs[o].onPostRestart
    /\ objs' = [objs EXCEPT ![o].onPostRestart = TRUE]
    /\ marks' = marks
    /\ handles' = handles
    /\ ev' = Ev("SetOnPostRestart", objs[o].id, o, Undefined, "ok")
    /\ io' = <<>>
    /\ calls < MaxCalls
    /\ calls' = calls + 1
    /\ cbs' = <<>>
    /\ hist' = Broken
    /\ UNCHANGED <<streams, tasks, socket, autoRestart>>

\* A close that never unregisters.
CloseUnregisters_Never(s) == FALSE
\* The test of close (line 490): this.socket.isConnected.
CloseUnregisters(s) == s.isConnected

\* close() (lines 489-493).
Close(o) ==
    /\ IF CloseUnregisters(socket)
       THEN UnregisterBody("Close", objs[o].id, Broken)
       ELSE /\ ev' = Ev("Close", objs[o].id, o, Undefined, "ok")
            /\ io' = <<>>
            /\ hist' = Broken
            /\ UNCHANGED <<streams, tasks>>
    /\ calls < MaxCalls
    /\ calls' = calls + 1
    /\ cbs' = <<>>
    /\ UNCHANGED <<objs, marks, handles, socket, autoRestart>>

\* release() (lines 317-325): the disconnect is not awaited, its error is logged.
Release ==
    /\ socket' = SocketDisconnect(socket)
    /\ io' = <<Call("disconnect", NoMsg)>>
    /\ ev' = Ev("Release", NoReqId, 0, Undefined, "ok")
    /\ calls < MaxCalls
    /\ calls' = calls + 1
    /\ cbs' = <<>>
    /\ hist' = Broken
    /\ UNCHANGED <<streams, objs, marks, handles, tasks, autoRestart>>

\* ------------------------------------------------- handlers the socket calls
\* handleMessage's lookup (line 394): what it finds under the message's key.
Route(reg, m) == Lookup(reg, RouteKey(m))

\* A dispatch that invokes the callback twice.
Deliver_Twice(s, m) == <<Cb("onMessage", s.onMessageHandler, m), Cb("onMessage", s.onMessageHandler, m)>>
\* stream.onMessage(message) (line 409): the callbacks handleMessage invokes.
Deliver(s, m) == <<Cb("onMessage", s.onMessageHandler, m)>>

\* handleMessage (lines 392-410), called by the socket with an inbound message.
\* An inherited value is not undefined and has no onMessage: line 409 throws.
HandleMessage(id, n) ==
    LET m == InboundMessage(id, n)
        o == Route(streams, m)
    IN  /\ socket.isConnected
        /\ calls' = calls
        /\ cbs' = IF o = 0 \/ o = Inherited THEN <<>> ELSE Deliver(objs[o], m)
        /\ ev' = Ev("HandleMessage", id, o, n, IF o = Inherited THEN "TypeError" ELSE "ok")
        /\ io' = <<>>
        /\ hist' = Broken
        /\ UNCHANGED <<streams, objs, marks, handles, tasks, socket, autoRestart>>

\* A handleReconnection that restarts the first stream only.
RestartTargets_FirstOnly(auto, reg) ==
    IF auto = FALSE \/ Count(reg) = 0 THEN <<>> ELSE <<reg[Keys(reg)[1]]>>
\* The streams handleReconnection restarts (lines 413-419), in forEach order.
RestartTargets(auto, reg) ==
    IF auto = FALSE THEN <<>> ELSE [i \in 1..Count(reg) |-> reg[Keys(reg)[i]]]

\* The socket re-establishes a lost connection and calls handleReconnection
\* (lines 412-420); each restart() runs up to its await of socket.send.
HandleReconnection ==
    LET targets == RestartTargets(autoRestart, streams)
        started == SelectSeq(targets, LAMBDA o : StreamExists(streams, objs[o].id))
    IN  /\ ~socket.isConnected /\ socket.listener /\ ~socket.opening
        /\ InFlight + Len(started) <= MaxInFlight
        /\ socket' = [socket EXCEPT !.isConnected = TRUE]
        /\ io' = [i \in 1..Len(started) |-> Call("send", RestartMessage(objs[started[i]], Undefined))]
        /\ tasks' = tasks (+) SetToBag({Task("restart", "send", IdOnly(objs[started[i]].id), started[i], TRUE) : i \in 1..Len(started)})
        /\ objs' = [o \in 1..Len(objs) |->
                        IF \E i \in 1..Len(started) : started[i] = o
                        THEN [objs[o] EXCEPT !.registrationMessage = Template(objs[o], Undefined)]
                        ELSE objs[o]]
        /\ ev' = Ev("HandleReconnection", NoReqId, 0, Undefined, "ok")
        /\ calls' = calls
        /\ cbs' = <<>>
        /\ hist' = Broken
        /\ UNCHANGED <<streams, marks, handles, autoRestart>>

\* ----------------------------------------------------- socket's own events
\* A connection attempt started by connect() succeeds: the connect promise
\* of every waiting registerStream resolves.
SocketOpen ==
    LET R(t) == IF t.pc = "connect" THEN [t EXCEPT !.ready = TRUE] ELSE t
        N(u) == CopiesIn(u, tasks)
                + (IF u.pc = "connect" THEN CopiesIn([u EXCEPT !.ready = FALSE], tasks) ELSE 0)
    IN  /\ socket.opening
        /\ socket' = SocketOpened(socket)
        /\ tasks' = [u \in {R(t) : t \in BagToSet(tasks)} |-> N(u)]
        /\ ev' = Ev("SocketOpen", NoReqId, 0, Undefined, "ok")
        /\ io' = <<>>
        /\ calls' = calls
        /\ cbs' = <<>>
        /\ hist' = hist
        /\ UNCHANGED <<streams, objs, marks, handles, autoRestart>>

\* A connection attempt fails: the connect promise of every waiting
\* registerStream rejects, and registerStream rejects with it (line 337).
SocketOpenFailed ==
    /\ socket.opening
    /\ socket' = [socket EXCEPT !.opening = FALSE]
    /\ tasks' = [t \in {x \in BagToSet(tasks) : ~(x.pc = "connect" /\ ~x.ready)} |-> tasks[t]]
    /\ ev' = Ev("SocketOpenFailed", NoReqId, 0, Undefined, "SocketError")
    /\ io' = <<>>
    /\ calls' = calls
    /\ cbs' = <<>>
    /\ hist' = HistFail(hist)
    /\ UNCHANGED <<streams, objs, marks, handles, autoRestart>>

\* The transport drops the connection; the socket will reconnect by itself.
SocketDrop ==
    /\ socket.isConnected /\ socket.listener
    /\ socket' = [socket EXCEPT !.isConnected = FALSE]
    /\ ev' = Ev("SocketDrop", NoReqId, 0, Undefined, "ok")
    /\ io' = <<>>
    /\ calls' = calls
    /\ cbs' = <<>>
    /\ hist' = Broken
    /\ UNCHANGED <<streams, objs, marks, handles, tasks, autoRestart>>

Init ==
    /\ streams = EmptyRegistry
    /\ objs = <<>>
    /\ tasks = EmptyBag
    /\ socket = SocketInit
    /\ autoRestart \in BOOLEAN
    /\ ev = Ev("init", NoReqId, 0, Undefined, "none")
    /\ io = <<>>
    /\ cbs = <<>>
    /\ handles = {}
    /\ marks = <<>>
    /\ calls = 0
    /\ hist = HistInit
Suspended == BagToSet(tasks)

Next ==
    \/ \E type \in RegTypes, id \in Ids, start \in StartBlocks \cup {Undefined} : RegisterStream(type, id, start)
    \/ \E t \in Suspended : RegisterConnected(t)
    \/ \E t \in Suspended : RegisterStarted(t)
    \/ \E t \in Suspended : RegisterStartFailed(t)
    \/ \E id \in Ids : UnregisterStream(id)
    \/ \E t \in Suspended : UnregisterSent(t)
    \/ \E t \in Suspended : UnregisterSendFailed(t)
    \/ \E t \in Suspended, ok \in BOOLEAN : UnregisterDisconnected(t, ok)
    \/ \E o \in handles, marker \in Blocks \cup {Undefined} : Restart(o, marker)
    \/ \E t \in Suspended : RestartSent(t)
    \/ \E t \in Suspended : RestartSendFailed(t)
    \/ \E o \in handles, b \in Blocks : Mark(o, b)
    \/ \E o \in handles : SetOnPostRestart(o)
    \/ \E o \in handles : Close(o)
    \/ Release
    \/ \E id \in Ids \cup {NoReqId}, n \in Blocks : HandleMessage(id, n)
    \/ HandleReconnection
    \/ SocketOpen
    \/ SocketOpenFailed
    \/ SocketDrop

Spec == Init /\ [][Next]_vars
\* ======================================================================
\* Properties
\* ======================================================================
\* The stream object o is an entry of the registry reg.
Held(reg, o) == \E k \in DOMAIN reg : reg[k] = o
\* The registry has a record under id: a stream was stored under it and has
\* not been deleted.
HasRecord(reg, id) == id \in DOMAIN reg
\* The socket calls of a step that send a message with the given id.
SendsFor(cs, id) == SelectSeq(cs, LAMBDA c : c.call = "send" /\ c.msg.req_id = id)
\* The disconnect calls of a step.
Disconnects(cs) == SelectSeq(cs, LAMBDA c : c.call = "disconnect")
\* The connect calls of a step.
Connects(cs) == SelectSeq(cs, LAMBDA c : c.call = "connect")
\* The onMessage callbacks of a step.
OnMessages(cs) == SelectSeq(cs, LAMBDA c : c.kind = "onMessage")
\* The registry key an inbound message with id `id` is looked up under: the
\* id itself, the empty string when the message carries no id.
KeyOf(id) == IF id = NoReqId THEN "" ELSE id
\* A stream object constructed before the step is in the registry after the
\* step only if it was in it before: only registerStream inserts, and it
\* inserts the stream it has just constructed.
NoReentry == \A o \in 1..Len(objs) : Held(streams', o) => Held(streams, o)

Registers == Cardinality(hist.okIds)
Unregisters == Cardinality(hist.unregIds)

\* C1: after any sequence of registerStream/unregisterStream calls
\* with distinct ids, each run to completion before the next, the registry
\* holds as many entries as streams were registered, less those unregistered,
\* and the socket is connected iff that number is not zero.
C1_AsStated ==
    (hist.seq /\ Idle) =>
        /\ Count(streams) = Registers - Unregisters
        /\ socket.isConnected <=> (Count(streams) # 0)

\* The same for the sequences in which no call failed: the count is kept in
\* every sequence, the connection state in those without a failure.
CountAndConnection_NoFailure ==
    (hist.seq /\ Idle) =>
        /\ Count(streams) = Registers - Unregisters
        /\ ~hist.failed => (socket.isConnected <=> (Count(streams) # 0))

CountAndConnection_Reached ==
    /\ hist.seq /\ Idle /\ ~hist.failed
    /\ Registers = 2 /\ Unregisters = 1
    /\ Count(streams) = 1 /\ socket.isConnected

\* C2: when the send of the registration message fails, registerStream fails
\* with the registration error and the registry then has no entry for that
\* id; and a stream, once out of the registry, never comes back into it, so
\* the registry never holds a stream whose registration send failed.
C2_RollbackOnFailedSend ==
    [][ /\ ev'.act = "RegisterStartFailed" =>
              /\ ev'.res = "RegistrationError"
              /\ ~HasRecord(streams', ev'.id)
              /\ ~Held(streams', ev'.obj)
        /\ NoReentry ]_vars

C2_Witness ==
    /\ ev.act = "RegisterStartFailed" /\ ev.res = "RegistrationError"
    /\ ~HasRecord(streams, ev.id)
    /\ Count(streams) = 1

\* C3: registerStream with an id that an active stream holds fails with the
\* duplicate error, calls nothing on the socket, and leaves the registry and
\* every stream (marker, callback) as they were: the id still routes to the
\* first stream.
C3_DuplicateRejected ==
    [][ (ev'.act \in {"RegisterStream", "RegisterConnected"} /\ HasRecord(streams, ev'.id)) =>
            /\ ev'.res = "DuplicateStreamError"
            /\ io' = <<>>
            /\ cbs' = <<>>
            /\ streams' = streams
            /\ objs' = objs
            /\ tasks' \sqsubseteq tasks
            /\ \A n \in Blocks : Route(streams', InboundMessage(ev'.id, n)) = streams[ev'.id] ]_vars

C3_Witness ==
    /\ ev.act = "RegisterStream" /\ ev.res = "DuplicateStreamError"
    /\ HasRecord(streams, ev.id)
    /\ objs[streams[ev.id]].activeMarker # Undefined

\* C4: on a reconnection with auto-restart enabled, for every stream in the
\* registry exactly one message is sent, and it is that stream's registration
\* message with the start position replaced by the argument of the stream's
\* latest mark call when there was one.
C4_RestartOncePerReconnection ==
    [][ (ev'.act = "HandleReconnection" /\ autoRestart) =>
            /\ Len(io') = Count(streams)
            /\ \A id \in DOMAIN streams :
                  LET o == streams[id]
                      reg == objs[o].registrationMessage
                      start == IF marks[o] # Undefined THEN marks[o] ELSE reg.start_block
                  IN  SendsFor(io', id) = <<Call("send", OutboundMessage(reg.type, id, start))>> ]_vars

C4_Witness ==
    /\ ev.act = "HandleReconnection" /\ autoRestart
    /\ Count(streams) = 2 /\ Len(io) = 2
    /\ \E a, b \in DOMAIN streams :
          /\ marks[streams[a]] # Undefined
          /\ marks[streams[a]] # objs[streams[a]].registrationMessage.start_block
          /\ marks[streams[b]] = Undefined
\* C5: unregisterStream removes the record before it sends the unlisten: in
\* the step that hands the unlisten for an id to the socket the registry has
\* no record under that id, and the stream that was held under it is held no
\* more; while the unlisten is in flight and
\* ever after, the removed stream is not in the registry (inbound traffic
\* leaves the registry as it is, and no stream re-enters it), and an inbound
\* message is only ever delivered to a stream that is in the registry.
C5_RemovedBeforeUnlisten ==
    [][ /\ \A i \in 1..Len(io') :
              (io'[i].call = "send" /\ io'[i].msg.type = "unlisten") =>
                  /\ ~HasRecord(streams', io'[i].msg.req_id)
                  /\ HasRecord(streams, io'[i].msg.req_id) =>
                        /\ ev'.obj = streams[io'[i].msg.req_id]
                        /\ ~Held(streams', ev'.obj)
        /\ \A t \in BagToSet(tasks') : t.op = "unregisterStream" => ~Held(streams', t.obj)
        /\ ev'.act = "HandleMessage" =>
              /\ streams' = streams
              /\ \A i \in 1..Len(cbs') : Held(streams, cbs'[i].obj)
        /\ NoReentry ]_vars

C5_Witness ==
    /\ ev.act = "HandleMessage" /\ ev.obj = 0 /\ cbs = <<>>
    /\ \E t \in Suspended : t.op = "unregisterStream" /\ t.pc = "send" /\ t.msg.req_id = ev.id

\* C6: registerStream inserts the record before it sends the registration
\* message: in the step that hands the registration message for an id to the
\* socket the registry maps that id to the stream just constructed; and an
\* inbound message for that id arriving while the send is in flight is
\* delivered to that stream's callback.
C6_AsStated ==
    [][ /\ (ev'.act \in {"RegisterStream", "RegisterConnected"} /\ SendsFor(io', ev'.id) # <<>>) =>
              /\ ev'.obj = Len(objs') /\ ev'.obj > Len(objs)
              /\ HasRecord(streams', ev'.id) /\ streams'[ev'.id] = ev'.obj
              /\ \A n \in Blocks : Route(streams', InboundMessage(ev'.id, n)) = ev'.obj
        /\ ev'.act = "HandleMessage" =>
              \A t \in Suspended :
                  (t.op = "registerStream" /\ t.pc = "start" /\ t.msg.req_id = KeyOf(ev'.id)) =>
                      cbs' = <<Cb("onMessage", objs[t.obj].onMessageHandler, InboundMessage(ev'.id, ev'.marker))>> ]_vars

\* C6 (amended): registerStream inserts the record before it sends the
\* registration message: in the step that hands the registration message for
\* an id to the socket the registry maps that id to the stream just
\* constructed, so that a reply arriving at once is routed to it; and an
\* inbound message for that id arriving while the send is in flight is
\* delivered to that stream's callback as long as the stream is still in the
\* registry (it is not once the id has been unregistered, or the record
\* deleted by a rollback, while the send was in flight).
C6_InsertedBeforeSend ==
    [][ /\ (ev'.act \in {"RegisterStream", "RegisterConnected"} /\ SendsFor(io', ev'.id) # <<>>) =>
              /\ ev'.obj = Len(objs') /\ ev'.obj > Len(objs)
              /\ HasRecord(streams', ev'.id) /\ streams'[ev'.id] = ev'.obj
              /\ \A n \in Blocks : Route(streams', InboundMessage(ev'.id, n)) = ev'.obj
        /\ ev'.act = "HandleMessage" =>
              \A t \in Suspended :
                  (t.op = "registerStream" /\ t.pc = "start" /\ t.msg.req_id = KeyOf(ev'.id)) =>
                      IF Held(streams, t.obj)
                      THEN cbs' = <<Cb("onMessage", objs[t.obj].onMessageHandler, InboundMessage(ev'.id, ev'.marker))>>
                      ELSE \A i \in 1..Len(cbs') : cbs'[i].obj # t.obj ]_vars

C6_Witness ==
    /\ ev.act = "HandleMessage" /\ ev.obj # 0 /\ Len(cbs) = 1
    /\ \E t \in Suspended : t.op = "registerStream" /\ t.pc = "start" /\ t.obj = ev.obj

\* C7: an inbound message whose id is not in the registry (for a message that
\* carries no id: when the empty string is not in the registry) is dropped:
\* no callback, no error, no socket call, and the registry, the streams and
\* their markers, the socket and the suspended calls are unchanged.
C7_AsStated ==
    [][ (ev'.act = "HandleMessage" /\ ~HasRecord(streams, KeyOf(ev'.id))) =>
            /\ cbs' = <<>>
            /\ io' = <<>>
            /\ ev'.res = "ok" /\ ev'.obj = 0
            /\ UNCHANGED <<streams, objs, marks, handles, socket, tasks>> ]_vars

\* C8: every inbound message is dispatched within the step that hands it over:
\* exactly one onMessage call, with that message, to the callback of the stream
\* registered under its id when there is one, none otherwise; and no other
\* step invokes an onMessage callback (nothing is buffered or replayed).
C8_DeliveredInOrder ==
    [][ /\ ev'.act = "HandleMessage" =>
              cbs' = IF HasRecord(streams, KeyOf(ev'.id))
                     THEN <<Cb("onMessage", objs[streams[KeyOf(ev'.id)]].onMessageHandler,
                               InboundMessage(ev'.id, ev'.marker))>>
                     ELSE <<>>
        /\ ev'.act # "HandleMessage" => OnMessages(cbs') = <<>> ]_vars

C8_Witness ==
    /\ ev.act = "HandleMessage" /\ ev.obj = 2 /\ Count(streams) = 2
    /\ cbs = <<Cb("onMessage", 2, InboundMessage(ev.id, ev.marker))>>

\* C9: the message restart sends is the registration message with its start
\* position replaced by the marker argument when one is given, else by the
\* argument of the stream's latest mark call when there was one, else left as
\* it is; type and id are the registration message's.
C9_RestartStartPosition ==
    [][ (ev'.act = "Restart" /\ ev'.res = "pending") =>
            LET o == ev'.obj
                reg == objs[o].registrationMessage
                start == IF ev'.marker # Undefined THEN ev'.marker
                         ELSE IF marks[o] # Undefined THEN marks[o]
                         ELSE reg.start_block
            IN  io' = <<Call("send", OutboundMessage(reg.type, reg.req_id, start))>> ]_vars

C9_Witness ==
    /\ ev.act = "Restart" /\ ev.res = "pending" /\ ev.marker = Undefined
    /\ marks[ev.obj] # Undefined
    /\ marks[ev.obj] # objs[ev.obj].registrationMessage.start_block
    /\ io = <<Call("send", [objs[ev.obj].registrationMessage EXCEPT !.start_block = marks[ev.obj]])>>

\* C10: restart on a stream that is not in the registry fails with
\* the not-registered error and does nothing else: no socket call, no
\* callback, no call left in flight, the registry unchanged.
C10_AsStated ==
    [][ (ev'.act = "Restart" /\ ~Held(streams, ev'.obj)) =>
            /\ ev'.res = "StreamNotRegisteredError"
            /\ io' = <<>>
            /\ cbs' = <<>>
            /\ tasks' = tasks
            /\ streams' = streams ]_vars

\* C11: a reconnection with auto-restart starts one restart per stream in the
\* registry, the handler itself returning normally; and when the send of one
\* of the restarts fails, that restart alone ends: every other pending restart
\* stays pending (its message has been handed to the socket and is not taken
\* back), the registry and the socket are as they were, nothing else is called.
C11_RestartFailureIsolated ==
    [][ /\ (ev'.act = "HandleReconnection" /\ autoRestart) =>
              /\ ev'.res = "ok"
              /\ \A id \in DOMAIN streams :
                    /\ SendsFor(io', id) # <<>>
                    /\ \E t \in BagToSet(tasks') :
                          /\ t.op = "restart" /\ t.obj = streams[id]
                          /\ CopiesIn(t, tasks') = CopiesIn(t, tasks) + 1
        /\ ev'.act = "RestartSendFailed" =>
              /\ \E t \in BagToSet(tasks) :
                    /\ t.op = "restart" /\ t.obj = ev'.obj
                    /\ tasks' = tasks (-) SetToBag({t})
              /\ io' = <<>>
              /\ UNCHANGED <<streams, objs, socket>> ]_vars

C11_Witness ==
    /\ ev.act = "RestartSendFailed" /\ autoRestart /\ calls = 2
    /\ Count(streams) = 2 /\ Held(streams, ev.obj)
    /\ \E t \in Suspended : t.op = "restart" /\ t.obj # ev.obj /\ Held(streams, t.obj)

\* C12: socket.disconnect is called only with an empty registry: whenever a
\* step calls disconnect, no stream is registered, a direct caller request
\* included.
C12_AsStated ==
    [][ Disconnects(io') # <<>> => Count(streams') = 0 ]_vars

\* C12 (amended): apart from release(), which disconnects at the caller's
\* request whatever the registry holds, disconnect is called only by
\* unregisterStream, once, after its unlisten send, with the registry empty;
\* and unregisterStream does not call it while a stream is registered.
C12_DisconnectWhenEmptyOrRelease ==
    [][ /\ Disconnects(io') # <<>> =>
              \/ ev'.act = "Release"
              \/ /\ ev'.act = "UnregisterSent"
                 /\ io' = <<Call("disconnect", NoMsg)>>
                 /\ Count(streams) = 0 /\ streams' = streams
        /\ (ev'.act = "UnregisterSent" /\ Count(streams) # 0) => io' = <<>> ]_vars

C12_Witness ==
    /\ ev.act = "UnregisterSent" /\ io = <<Call("disconnect", NoMsg)>>
    /\ Count(streams) = 0 /\ Len(objs) = 2 /\ ~socket.isConnected

\* C13: connect is called once per transition of the registry from empty to
\* non-empty: a step calls connect only with the registry empty, no other
\* registerStream waiting for a connect it has called, and the socket neither
\* connected nor connecting; and the step that calls connect sends no
\* registration message (the message goes out after connect has completed).
C13_AsStated ==
    [][ /\ Connects(io') # <<>> =>
              /\ Len(Connects(io')) = 1
              /\ Count(streams) = 0
              /\ Connecting = {}
              /\ ~socket.isConnected /\ ~socket.opening
        /\ Connects(io') # <<>> => SendsFor(io', ev'.id) = <<>> ]_vars

\* C14: unregisterStream with an id that has no record in the registry
\* returns normally and does nothing: no unlisten, no disconnect, no callback,
\* and the registry, the streams, the socket and the calls in flight are as
\* they were; so a second unregisterStream of an id changes nothing.
C14_AsStated ==
    [][ (ev'.act = "UnregisterStream" /\ ~HasRecord(streams, ev'.id)) =>
            /\ ev'.res = "ok" /\ ev'.obj = 0
            /\ io' = <<>>
            /\ cbs' = <<>>
            /\ UNCHANGED <<streams, objs, marks, handles, socket, tasks>> ]_vars

\* C15: close on a stream that is in the registry takes it out of the registry,
\* whatever the state of the connection at the call.
C15_AsStated ==
    [][ (ev'.act = "Close" /\ Held(streams, ev'.obj)) => ~Held(streams', ev'.obj) ]_vars

\* C15 (amended): close on a stream that is in the registry, the socket being
\* connected, removes it as unregisterStream does and sends its unlisten; the
\* stream never comes back into the registry, so it gets no inbound message
\* and no restart at a later reconnection (both go to streams in the registry
\* only).  With the socket not connected close does nothing: the stream stays
\* in the registry.
C15_CloseWhenConnected ==
    [][ /\ (ev'.act = "Close" /\ Held(streams, ev'.obj) /\ socket.isConnected) =>
              /\ ~Held(streams', ev'.obj)
              /\ io' = <<Call("send", unlistenMessage(ev'.id))>>
        /\ (ev'.act = "Close" /\ ~socket.isConnected) =>
              /\ ev'.res = "ok" /\ io' = <<>>
              /\ UNCHANGED <<streams, objs, socket, tasks>>
        /\ NoReentry
        /\ ev'.act = "HandleMessage" => \A i \in 1..Len(cbs') : Held(streams, cbs'[i].obj)
        /\ ev'.act = "HandleReconnection" =>
              \A t \in BagToSet(tasks') :
                  (t.op = "restart" /\ CopiesIn(t, tasks') > CopiesIn(t, tasks)) => Held(streams, t.obj) ]_vars

C15_Witness ==
    /\ ev.act = "Close" /\ ev.res = "pending" /\ socket.isConnected
    /\ ev.obj \in handles /\ ~Held(streams, ev.obj)
    /\ io = <<Call("send", unlistenMessage(ev.id))>>
    /\ Count(streams) = 1

\* C16: a stream is in the registry iff its registration message has been
\* sent (handed to the socket, the send not having failed) and the stream has
\* not been unregistered.  Step by step: a stream enters the registry exactly
\* in the step that constructs it and sends its registration message; it
\* leaves the registry exactly in the step that unregisters it or in the step
\* in which the send of its own registration message fails; nothing else
\* changes the membership of any stream.
C16_AsStated ==
    [][ \A o \in 1..Len(objs') :
            LET before == o <= Len(objs) /\ Held(streams, o)
                after  == Held(streams', o)
            IN  /\ o > Len(objs) =>
                      /\ after
                      /\ io' = <<Call("send", objs'[o].registrationMessage)>>
                /\ (~before /\ after) => o > Len(objs)
                /\ (before /\ ~after) =>
                      /\ ev'.obj = o
                      /\ ev'.act \in {"UnregisterStream", "Close", "RegisterStartFailed"}
                /\ (ev'.obj = o /\ ev'.act = "RegisterStartFailed") => ~after
                /\ (ev'.obj = o /\ ev'.act \in {"UnregisterStream", "Close"} /\ ev'.res = "pending") => ~after ]_vars

\* C19: the rollback of a failed registerStream removes the record its own
\* call inserted and no other: every other stream that is in the registry
\* before the step in which the call fails is in it afterwards.
C19_AsStated ==
    [][ ev'.act = "RegisterStartFailed" =>
            \A o \in 1..Len(objs) : (o # ev'.obj /\ Held(streams, o)) => Held(streams', o) ]_vars

\* C17: the stored marker of a stream changes in a step only if the step is a
\* mark call on that stream; after every step currentActiveMarker is the
\* argument of the latest mark call on the stream (none if there was none);
\* and mark calls nothing on the socket, invokes no callback and leaves the
\* registry, the socket and the calls in flight as they were.
C17_MarkerOnlyByMark ==
    [][ /\ \A o \in 1..Len(objs) :
              currentActiveMarker(objs'[o]) # currentActiveMarker(objs[o]) =>
                  (ev'.act = "Mark" /\ ev'.obj = o)
        /\ \A o \in 1..Len(objs') : currentActiveMarker(objs'[o]) = marks'[o]
        /\ ev'.act = "Mark" =>
              /\ currentActiveMarker(objs'[ev'.obj]) = ev'.marker
              /\ io' = <<>>
              /\ cbs' = <<>>
              /\ UNCHANGED <<streams, socket, tasks>> ]_vars

C17_Witness ==
    /\ ev.act = "RestartSent" /\ ~Held(streams, ev.obj)
    /\ marks[ev.obj] # Undefined
    /\ currentActiveMarker(objs[ev.obj]) = marks[ev.obj]

\* C18: no step changes the registration message a stream holds, and no step
\* of a restart (its call, its completion, its failure) changes the registry;
\* so a restart without a marker on a stream that was never marked sends the
\* registration message as it was registered, whatever restarts came before.
C18_TemplateImmutable ==
    [][ /\ \A o \in 1..Len(objs) : objs'[o].registrationMessage = objs[o].registrationMessage
        /\ ev'.act \in {"Restart", "RestartSent", "RestartSendFailed"} => streams' = streams
        /\ (ev'.act = "Restart" /\ ev'.res = "pending" /\ ev'.marker = Undefined /\ marks[ev'.obj] = Undefined) =>
              io' = <<Call("send", objs[ev'.obj].registrationMessage)>> ]_vars

C18_Witness ==
    /\ ev.act = "Restart" /\ ev.res = "pending" /\ ev.marker # Undefined
    /\ marks[ev.obj] = Undefined
    /\ io = <<Call("send", [objs[ev.obj].registrationMessage EXCEPT !.start_block = ev.marker])>>
    /\ objs[ev.obj].registrationMessage.start_block # ev.marker
    /\ \E t \in Suspended : t.op = "restart" /\ t.obj = ev.obj /\ tasks[t] = 2

\* C20: when registerStream is called while the unregisterStream of the last
\* active stream is in flight, and both calls have completed without error
\* (nothing else having been called or having happened meanwhile), the
\* registry is not empty and the socket is connected.
C20_AsStated ==
    (hist.overlap /\ Idle) => (Count(streams) # 0 /\ socket.isConnected)
====
